---- MODULE Spec2Model ----
(***************************************************************************)
(* Model of nibe_serial.py: the poll-response transaction state machine    *)
(* NibeSerial.handle_frame, the request queue filled by main.on_message    *)
(* and by main.on_res / main.on_data, and the gateway loop of main.        *)
(*                                                                         *)
(* Bytes are integers 0..255, byte strings are sequences of bytes.         *)
(* Python's None is the empty sequence, a present value v is <<v>>.        *)
(***************************************************************************)
EXTENDS Integers, Sequences, FiniteSets, TLC

VARIABLES
    req_q,       \* main.req_q / NibeSerial._req_q: the FIFO of requests
    unfinished,  \* Queue.unfinished_tasks: put() adds one, task_done() takes one
    op,          \* NibeSerial._op: None or {"coil": ..., "pending": ...}
    opTicket,    \* ticket of the request that became the operation, 0 if none
    alive,       \* TRUE while the loop of main runs (no exception escaped)
    nput,        \* number of put() calls so far; the next request's ticket
    frame,       \* payload of the last handle_frame call
    out,         \* arguments of respond() during the last handle_frame call
    status,      \* how the last call ended: "ok", "caught" or "raised"
    res_out,     \* arguments of on_res during the last call
    data_out,    \* arguments of on_data during the last call
    popped,      \* tickets of the requests got from the queue, in order
    ndone,       \* number of task_done() calls that returned
    emitted,     \* tickets whose request frame was sent, in order of first sending
    lastSent,    \* the request frame last sent for the active operation
    errAt,       \* where the last call failed: "", "index", "task_done", "parse",
                 \* "admit" or "decode"
    step,        \* the last step taken: "init", "put" or "frame"
    acked,       \* tickets of the operations an ACK arrived for while pending
    opReq,       \* the request that became the operation, NoOp if none
    resend,      \* whether the last call sent the operation's frame again:
                 \* "none", "after_nak", "unacked" or "unacked_repeat"
    awaiting,    \* ticket of the operation whose request frame was sent with
                 \* no frame starting with ACK or NAK received since, else 0
    mid          \* <<>> between calls of handle_frame; inside a call that
                 \* is taken in steps, <<the call's position and locals>>

vars == <<req_q, unfinished, op, opTicket, alive, nput, frame, out, status, res_out,
          data_out, popped, ndone, emitted, lastSent, errAt, step, acked, opReq,
          resend, awaiting, mid>>

---------------------------------------------------------------------------
(* Bounds of the model *)

MaxPuts == 3

---------------------------------------------------------------------------
(* Protocol constants *)

ACK == 6
NAK == 21
START_RESPONSE == 92
START_REQUEST == 192
MODBUS40 == 32
MODBUS_DATA_MSG == 104
MODBUS_READ_REQ == 105
MODBUS_READ_RESP == 106
MODBUS_WRITE_REQ == 107
MODBUS_WRITE_RESP == MODBUS_WRITE_REQ + 1
\* An address of another node and a command that is none of the five above
OtherAddress == MODBUS40 + 1
OtherCmd == MODBUS_WRITE_RESP + 2
UNUSED_ADDRESS == 65535
ALARM_ACTIVE == 251

None == <<>>

---------------------------------------------------------------------------
(* Byte helpers *)

RECURSIVE XorBits(_, _, _)
XorBits(a, b, n) ==
    IF n = 0 THEN 0
    ELSE ((a + b) % 2) + 2 * XorBits(a \div 2, b \div 2, n - 1)

\* XorBits tabulated over the bytes
XorTable == [a \in 0..255 |-> [b \in 0..255 |-> XorBits(a, b, 8)]]

Xor(a, b) == XorTable[a][b]

RECURSIVE XorAll(_)
XorAll(s) == IF s = <<>> THEN 0 ELSE Xor(Head(s), XorAll(Tail(s)))

Lo(a) == a % 256
Hi(a) == (a \div 256) % 256

\* Little-endian unsigned integer of a byte string
RECURSIVE LittleEndian(_)
LittleEndian(s) ==
    IF s = <<>> THEN 0 ELSE Head(s) + 256 * LittleEndian(Tail(s))

\* Little-endian bytes of v, n bytes wide
RECURSIVE ToBytes(_, _)
ToBytes(v, n) ==
    IF n = 0 THEN <<>> ELSE <<v % 256>> \o ToBytes(v \div 256, n - 1)

---------------------------------------------------------------------------
(* Frame codec (nibe.connection.nibegw), as the doctests of NibeSerial show it *)

\* A frame of the controller: 5c 00 address cmd length data checksum, the
\* checksum being the xor of address, cmd, length and data.
ControllerFrame(address, cmd, data) ==
    <<START_RESPONSE, 0, address, cmd, Len(data)>> \o data
        \o <<XorAll(<<address, cmd, Len(data)>> \o data)>>

ParseError == [err |-> TRUE, address |-> 0, cmd |-> 0, data |-> <<>>]

\* Response.parse(payload).fields.value
ResponseParse(p) ==
    IF Len(p) < 6 THEN ParseError
    ELSE IF p[1] # START_RESPONSE \/ p[2] # 0 THEN ParseError
    ELSE IF Len(p) < 6 + p[5] THEN ParseError
    ELSE LET data == SubSeq(p, 6, 5 + p[5])
         IN  IF p[6 + p[5]] # XorAll(<<p[3], p[4], p[5]>> \o data) THEN ParseError
             ELSE IF p[4] = MODBUS_READ_RESP /\ p[5] < 2 THEN ParseError
             ELSE IF p[4] = MODBUS_WRITE_RESP /\ p[5] < 1 THEN ParseError
             ELSE [err |-> FALSE, address |-> p[3], cmd |-> p[4], data |-> data]

\* fields.data of a MODBUS_DATA_MSG: length div 4 entries of (coil_address, value)
DataEntries(data) ==
    [i \in 1..(Len(data) \div 4) |->
        [coil_address |-> LittleEndian(SubSeq(data, 4 * i - 3, 4 * i - 2)),
         value |-> SubSeq(data, 4 * i - 1, 4 * i)]]

\* A request frame of this node: c0 cmd length data checksum, the checksum
\* being the xor of all bytes before it.
RequestFrame(cmd, data) ==
    LET body == <<START_REQUEST, cmd, Len(data)>> \o data
    IN  body \o <<XorAll(body)>>

\* ReadRequest.build(dict(fields=dict(value=dict(coil_address=a))))
ReadRequestBuild(address) ==
    RequestFrame(MODBUS_READ_REQ, <<Lo(address), Hi(address)>>)

\* WriteRequest.build(dict(fields=dict(value=dict(coil_address=a, value=raw))))
WriteRequestBuild(address, raw) ==
    RequestFrame(MODBUS_WRITE_REQ, <<Lo(address), Hi(address)>> \o raw)

PlainAck == <<ACK>>

---------------------------------------------------------------------------
(* Register directory (nibe.heatpump.HeatPump) for the registers the        *)
(* doctests and main name.  size is the width in bytes, max the largest     *)
(* value the register accepts.                                              *)

Coils ==
    { [name |-> "alarm-45001", address |-> 45001, size |-> 2, max |-> 65535,
       value |-> None],
      [name |-> "alarm-reset-45171", address |-> 45171, size |-> 1, max |-> 1,
       value |-> None],
      [name |-> "bt1-outdoor-temperature-40004", address |-> 40004, size |-> 2,
       max |-> 65535, value |-> None],
      [name |-> "aa23-be5-energy-1-42028", address |-> 42028, size |-> 4,
       max |-> 65535, value |-> None] }

CoilNames == {c.name : c \in Coils}
CoilAddresses == {c.address : c \in Coils}

\* copy(self._heatpump.get_coil_by_name(name)); the caller checks the name
get_coil_by_name(name) == CHOOSE c \in Coils : c.name = name

\* copy(self._heatpump.get_coil_by_address(address))
get_coil_by_address(address) == CHOOSE c \in Coils : c.address = address

\* coil.value = v succeeds
ValueAccepted(coil, v) == v = None \/ (v[1] >= 0 /\ v[1] <= coil.max)

\* coil.raw_value of a coil holding a value: four bytes, little endian
raw_value(coil) == ToBytes(coil.value[1], 4)

\* NibeSerial.decode_raw_data: err is "lookup" when no register has the
\* address, "stream" (construct.StreamError) when value is shorter than the
\* register is wide.
decode_raw_data(address, value) ==
    IF address \notin CoilAddresses
    THEN [err |-> "lookup", name |-> "", value |-> 0]
    ELSE LET coil == get_coil_by_address(address)
         IN  IF Len(value) < coil.size
             THEN [err |-> "stream", name |-> coil.name, value |-> 0]
             ELSE [err |-> "none", name |-> coil.name,
                   value |-> LittleEndian(SubSeq(value, 1, coil.size))]

---------------------------------------------------------------------------
(* Requests and frames the environment may deliver *)

NoOp == [none |-> TRUE]

SeedRequest == [name |-> "alarm-45001"]
AlarmReset == [name |-> "alarm-reset-45171", value |-> <<1>>]

\* What main.on_message may put: a read, a write, a write whose value the
\* register rejects, a name the directory does not know.
Requests ==
    { SeedRequest,
      AlarmReset,
      [name |-> "alarm-reset-45171", value |-> <<300>>],
      [name |-> "no-such-register"] }

ReadPoll == ControllerFrame(MODBUS40, MODBUS_READ_REQ, <<>>)
WritePoll == ControllerFrame(MODBUS40, MODBUS_WRITE_REQ, <<>>)
ForeignPoll == ControllerFrame(OtherAddress, MODBUS_READ_REQ, <<>>)
ForeignData ==
    ControllerFrame(OtherAddress, MODBUS_DATA_MSG,
                    <<Lo(45001), Hi(45001), ALARM_ACTIVE, 0>>)
OtherCommand == ControllerFrame(MODBUS40, OtherCmd, <<>>)
WriteResp == ControllerFrame(MODBUS40, MODBUS_WRITE_RESP, <<1>>)
ReadRespAlarm ==
    ControllerFrame(MODBUS40, MODBUS_READ_RESP,
                    <<Lo(45001), Hi(45001), ALARM_ACTIVE, 0, 0, 0>>)
ReadRespUnknown ==
    ControllerFrame(MODBUS40, MODBUS_READ_RESP, <<1, 0, 0, 0, 0, 0>>)
DataEntry(address, b1, b2) == <<Lo(address), Hi(address), b1, b2>>
DataSentinels ==
    ControllerFrame(MODBUS40, MODBUS_DATA_MSG,
        DataEntry(UNUSED_ADDRESS, 0, 0) \o DataEntry(UNUSED_ADDRESS, 0, 0))
DataPlain ==
    ControllerFrame(MODBUS40, MODBUS_DATA_MSG,
        DataEntry(40004, 128, 0) \o DataEntry(UNUSED_ADDRESS, 0, 0))
DataAlarm ==
    ControllerFrame(MODBUS40, MODBUS_DATA_MSG,
        DataEntry(45001, ALARM_ACTIVE, 0) \o DataEntry(40004, 128, 0))
DataWide ==
    ControllerFrame(MODBUS40, MODBUS_DATA_MSG,
        DataEntry(42028, 1, 2) \o DataEntry(42029, 3, 0)
            \o DataEntry(40004, 128, 0))
DataNotAdjacent ==
    ControllerFrame(MODBUS40, MODBUS_DATA_MSG,
        DataEntry(40004, 128, 0) \o DataEntry(42028, 1, 2)
            \o DataEntry(40004, 5, 0))
DataWideAtEnd ==
    ControllerFrame(MODBUS40, MODBUS_DATA_MSG,
        DataEntry(40004, 128, 0) \o DataEntry(42028, 1, 2))
BadChecksum == <<START_RESPONSE, 0, MODBUS40, MODBUS_READ_REQ, 0, 0>>
Truncated == <<START_RESPONSE, 0, MODBUS40>>

Bodies ==
    { ReadPoll, WritePoll, ForeignPoll, ForeignData, OtherCommand, WriteResp, ReadRespAlarm,
      ReadRespUnknown, DataSentinels, DataPlain, DataAlarm, DataWide,
      DataNotAdjacent, DataWideAtEnd, BadChecksum, Truncated }

\* Every datagram Udp.recv may return: empty, a lone control byte, a body, a
\* control byte followed by a body.
Frames ==
    {<<>>, <<ACK>>, <<NAK>>} \cup Bodies
        \cup {<<ACK>> \o b : b \in {ReadPoll, WritePoll, ForeignPoll, BadChecksum,
                                    ReadRespUnknown}}
        \cup {<<NAK>> \o b : b \in {ReadPoll, WritePoll}}

\* What is left of a frame once a control byte is stripped
Payloads == Frames \cup {Tail(f) : f \in Frames \ {<<>>}}

\* Response.parse tabulated over the payloads
ParsedPayload == [p \in Payloads |-> ResponseParse(p)]

---------------------------------------------------------------------------
(* handle_frame, as steps over a record s of the state it reads and writes *)

\* Queue.put(req)
put(s, req) ==
    [s EXCEPT !.q = Append(@, [req |-> req, ticket |-> s.nput + 1]),
              !.unfinished = @ + 1,
              !.nput = @ + 1]

\* Queue.task_done(): ValueError when called more often than put
task_done(s) ==
    IF s.unfinished <= 0
    THEN [s EXCEPT !.status = "raised", !.errAt = "task_done"]
    ELSE [s EXCEPT !.unfinished = @ - 1, !.ndone = @ + 1]

\* respond(m)
respond(s, m) == [s EXCEPT !.out = Append(@, m)]

\* Preamble with the pending test of line 199 left out
Preamble_NoPendingTest(s) ==
    IF s.payload = <<>>
    THEN [s EXCEPT !.status = "raised", !.errAt = "index"]
    ELSE IF s.payload[1] \in {ACK, NAK}
    THEN LET s1 ==
                 IF s.op # NoOp
                 THEN IF s.payload[1] = ACK
                      THEN task_done([s EXCEPT !.op = NoOp, !.opTicket = 0,
                                               !.lastSent = <<>>])
                      ELSE [s EXCEPT !.op.pending = FALSE]
                 ELSE s
         IN  IF s1.status = "raised" THEN s1
             ELSE [s1 EXCEPT !.payload = Tail(@)]
    ELSE s

\* Preamble with NAK handled as ACK is
Preamble_NakCompletes(s) ==
    IF s.payload = <<>>
    THEN [s EXCEPT !.status = "raised", !.errAt = "index"]
    ELSE IF s.payload[1] \in {ACK, NAK}
    THEN LET s1 ==
                 IF s.op # NoOp /\ s.op.pending
                 THEN task_done([s EXCEPT !.op = NoOp, !.opTicket = 0,
                                          !.lastSent = <<>>])
                 ELSE s
         IN  IF s1.status = "raised" THEN s1
             ELSE [s1 EXCEPT !.payload = Tail(@)]
    ELSE s

\* Preamble stripping the control byte only when a pending operation took it
Preamble_StripWhenPending(s) ==
    IF s.payload = <<>>
    THEN [s EXCEPT !.status = "raised", !.errAt = "index"]
    ELSE IF s.payload[1] \in {ACK, NAK} /\ s.op # NoOp /\ s.op.pending
    THEN LET s1 == IF s.payload[1] = ACK
                   THEN task_done([s EXCEPT !.op = NoOp, !.opTicket = 0,
                                            !.lastSent = <<>>])
                   ELSE [s EXCEPT !.op.pending = FALSE]
         IN  IF s1.status = "raised" THEN s1
             ELSE [s1 EXCEPT !.payload = Tail(@)]
    ELSE s

\* Lines 198-206: the control byte
Preamble(s) ==
    IF s.payload = <<>>
    THEN [s EXCEPT !.status = "raised", !.errAt = "index"]
    ELSE IF s.payload[1] \in {ACK, NAK}
    THEN LET s1 ==
                 IF s.op # NoOp /\ s.op.pending
                 THEN IF s.payload[1] = ACK
                      THEN task_done([s EXCEPT !.op = NoOp, !.opTicket = 0,
                                               !.lastSent = <<>>])
                      ELSE [s EXCEPT !.op.pending = FALSE]
                 ELSE s
         IN  IF s1.status = "raised" THEN s1
             ELSE [s1 EXCEPT !.payload = Tail(@)]
    ELSE s

\* Admit with the test for an active operation of line 213 left out
Admit_NoActiveTest(s) ==
    IF s.q # <<>>
    THEN LET e == Head(s.q)
             s1 == [s EXCEPT !.q = Tail(@), !.popped = Append(@, e.ticket)]
         IN  IF e.req.name \notin CoilNames
             THEN [s1 EXCEPT !.status = "caught", !.errAt = "admit"]
             ELSE LET coil == get_coil_by_name(e.req.name)
                  IN  [s1 EXCEPT
                         !.op = [coil |-> [coil EXCEPT !.value =
                                     IF "value" \in DOMAIN e.req
                                     THEN e.req.value ELSE None],
                                 pending |-> FALSE],
                         !.opTicket = e.ticket]
    ELSE s

\* Admit taking the newest request instead of the oldest
Admit_Lifo(s) ==
    IF s.op = NoOp /\ s.q # <<>>
    THEN LET e == s.q[Len(s.q)]
             s1 == [s EXCEPT !.q = SubSeq(@, 1, Len(@) - 1),
                             !.popped = Append(@, e.ticket)]
         IN  IF e.req.name \notin CoilNames
             THEN [s1 EXCEPT !.status = "caught", !.errAt = "admit"]
             ELSE LET coil == get_coil_by_name(e.req.name)
                  IN  IF "value" \in DOMAIN e.req /\ ~ValueAccepted(coil, e.req.value)
                      THEN [s1 EXCEPT !.status = "caught", !.errAt = "admit"]
                      ELSE [s1 EXCEPT
                              !.op = [coil |-> [coil EXCEPT !.value =
                                          IF "value" \in DOMAIN e.req
                                          THEN e.req.value ELSE None],
                                      pending |-> FALSE],
                              !.opTicket = e.ticket]
    ELSE s

\* Line 213: self._op == None and not self._req_q.empty()
AdmitCheck(s) == s.op = NoOp /\ s.q # <<>>

\* AdmitGet reading the oldest request without taking it off the queue
AdmitGet_Peek(s) ==
    IF s.q = <<>> THEN [s EXCEPT !.status = "caught", !.errAt = "empty"]
    ELSE LET e == Head(s.q)
             s1 == [s EXCEPT !.popped = Append(@, e.ticket)]
         IN  IF e.req.name \notin CoilNames
             THEN [s1 EXCEPT !.status = "caught", !.errAt = "admit"]
             ELSE LET coil == get_coil_by_name(e.req.name)
                  IN  IF "value" \in DOMAIN e.req
                      THEN IF ValueAccepted(coil, e.req.value)
                           THEN [s1 EXCEPT
                                   !.op = [coil |-> [coil EXCEPT !.value = e.req.value],
                                           pending |-> FALSE],
                                   !.opTicket = e.ticket]
                           ELSE [s1 EXCEPT !.status = "caught", !.errAt = "admit"]
                      ELSE [s1 EXCEPT !.op = [coil |-> coil, pending |-> FALSE],
                                      !.opTicket = e.ticket]

\* Lines 214-218: get_nowait (queue.Empty on an empty queue), then the
\* request becomes the operation
AdmitGet(s) ==
    IF s.q = <<>> THEN [s EXCEPT !.status = "caught", !.errAt = "empty"]
    ELSE LET e == Head(s.q)
             s1 == [s EXCEPT !.q = Tail(@), !.popped = Append(@, e.ticket)]
         IN  IF e.req.name \notin CoilNames
             THEN [s1 EXCEPT !.status = "caught", !.errAt = "admit"]
             ELSE LET coil == get_coil_by_name(e.req.name)
                  IN  IF "value" \in DOMAIN e.req
                      THEN IF ValueAccepted(coil, e.req.value)
                           THEN [s1 EXCEPT
                                   !.op = [coil |-> [coil EXCEPT !.value = e.req.value],
                                           pending |-> FALSE],
                                   !.opTicket = e.ticket]
                           ELSE [s1 EXCEPT !.status = "caught", !.errAt = "admit"]
                      ELSE [s1 EXCEPT !.op = [coil |-> coil, pending |-> FALSE],
                                      !.opTicket = e.ticket]

\* Lines 213-218: a request becomes the operation
Admit(s) == IF AdmitCheck(s) THEN AdmitGet(s) ELSE s

\* SendRequest sending the frame without marking the operation pending
SendRequest_PendingLeft(s, m) ==
    LET s2 == [s EXCEPT
                 !.emitted = IF @ # <<>> /\ @[Len(@)] = s.opTicket
                             THEN @ ELSE Append(@, s.opTicket),
                 !.lastSent = m]
    IN  respond(s2, m)

\* SendRequest flipping the pending flag instead of setting it
SendRequest_TogglePending(s, m) ==
    LET s1 == [s EXCEPT !.op.pending = ~@]
        s2 == [s1 EXCEPT
                 !.emitted = IF @ # <<>> /\ @[Len(@)] = s.opTicket
                             THEN @ ELSE Append(@, s.opTicket),
                 !.lastSent = m]
    IN  respond(s2, m)

\* Lines 239-244 and 261-266: mark pending and send the request frame m
SendRequest(s, m) ==
    LET s1 == IF s.op.pending THEN s ELSE [s EXCEPT !.op.pending = TRUE]
        s2 == [s1 EXCEPT
                 !.emitted = IF @ # <<>> /\ @[Len(@)] = s.opTicket
                             THEN @ ELSE Append(@, s.opTicket),
                 !.lastSent = m]
    IN  respond(s2, m)

\* PollResponse without the tests of the operation's direction
PollResponse_NoDirection(s, cmd) ==
    IF cmd \in {MODBUS_READ_REQ, MODBUS_WRITE_REQ} /\ s.op # NoOp
    THEN IF cmd = MODBUS_READ_REQ
         THEN SendRequest(s, ReadRequestBuild(s.op.coil.address))
         ELSE SendRequest(s, WriteRequestBuild(s.op.coil.address,
                  IF s.op.coil.value = None THEN <<0, 0, 0, 0>>
                  ELSE raw_value(s.op.coil)))
    ELSE respond(s, PlainAck)

\* Lines 220-272: the answer to the frame
PollResponse(s, cmd) ==
    IF cmd \in {MODBUS_READ_REQ, MODBUS_WRITE_REQ} /\ s.op # NoOp
    THEN IF cmd = MODBUS_READ_REQ /\ s.op.coil.value = None
         THEN SendRequest(s, ReadRequestBuild(s.op.coil.address))
         ELSE IF cmd = MODBUS_WRITE_REQ /\ s.op.coil.value # None
         THEN SendRequest(s, WriteRequestBuild(s.op.coil.address,
                                               raw_value(s.op.coil)))
         ELSE respond(s, PlainAck)
    ELSE respond(s, PlainAck)

\* main.on_res(name, value)
on_res(s, name, value) ==
    LET s1 == [s EXCEPT !.res = Append(@, <<name, value>>)]
    IN  IF name = "alarm-45001" /\ value = ALARM_ACTIVE
        THEN put(s1, AlarmReset)
        ELSE s1

\* main.on_data(data)
on_data(s, data) ==
    LET s1 == [s EXCEPT !.data = Append(@, data)]
    IN  IF <<"alarm-45001", ALARM_ACTIVE>> \in data
        THEN put(s1, AlarmReset)
        ELSE s1

\* data[k] = v on a dict held as a set of <<key, value>>
DictSet(data, k, v) == {e \in data : e[1] # k} \cup {<<k, v>>}

\* DecodeEntries going on with the entry after d, not after d2, once two
\* entries were joined
RECURSIVE DecodeEntries_ContinuationKept(_, _, _)
DecodeEntries_ContinuationKept(entries, i, data) ==
    IF i > Len(entries) THEN [err |-> FALSE, data |-> data]
    ELSE LET d == entries[i]
         IN  IF d.coil_address = UNUSED_ADDRESS
             THEN DecodeEntries_ContinuationKept(entries, i + 1, data)
             ELSE LET r == decode_raw_data(d.coil_address, d.value)
                  IN  IF r.err = "none"
                      THEN DecodeEntries_ContinuationKept(entries, i + 1,
                               DictSet(data, r.name, r.value))
                      ELSE IF r.err = "stream"
                      THEN IF i + 1 > Len(entries)
                           THEN [err |-> TRUE, data |-> data]
                           ELSE LET d2 == entries[i + 1]
                                    r2 == decode_raw_data(d.coil_address,
                                                          d.value \o d2.value)
                                IN  IF d2.coil_address # d.coil_address + 1
                                    THEN [err |-> TRUE, data |-> data]
                                    ELSE IF r2.err # "none"
                                    THEN [err |-> TRUE, data |-> data]
                                    ELSE DecodeEntries_ContinuationKept(entries, i + 1,
                                             DictSet(data, r2.name, r2.value))
                      ELSE [err |-> TRUE, data |-> data]

\* Lines 290-302: the loop over the entries from entry i on; err is TRUE
\* when an exception leaves the loop
RECURSIVE DecodeEntries(_, _, _)
DecodeEntries(entries, i, data) ==
    IF i > Len(entries) THEN [err |-> FALSE, data |-> data]
    ELSE LET d == entries[i]
         IN  IF d.coil_address = UNUSED_ADDRESS
             THEN DecodeEntries(entries, i + 1, data)
             ELSE LET r == decode_raw_data(d.coil_address, d.value)
                  IN  IF r.err = "none"
                      THEN DecodeEntries(entries, i + 1,
                                         DictSet(data, r.name, r.value))
                      ELSE IF r.err = "stream"
                      THEN IF i + 1 > Len(entries)
                           THEN [err |-> TRUE, data |-> data]
                           ELSE LET d2 == entries[i + 1]
                                    r2 == decode_raw_data(d.coil_address,
                                                          d.value \o d2.value)
                                IN  IF d2.coil_address # d.coil_address + 1
                                    THEN [err |-> TRUE, data |-> data]
                                    ELSE IF r2.err # "none"
                                    THEN [err |-> TRUE, data |-> data]
                                    ELSE DecodeEntries(entries, i + 2,
                                             DictSet(data, r2.name, r2.value))
                      ELSE [err |-> TRUE, data |-> data]

\* Content ending the operation when the controller's write response arrives
Content_WriteRespEnds(s, fields) ==
    IF fields.cmd = MODBUS_READ_RESP
    THEN LET r == decode_raw_data(LittleEndian(SubSeq(fields.data, 1, 2)),
                                  SubSeq(fields.data, 3, Len(fields.data)))
         IN  IF r.err = "none" THEN on_res(s, r.name, r.value)
             ELSE [s EXCEPT !.status = "caught", !.errAt = "decode"]
    ELSE IF fields.cmd = MODBUS_DATA_MSG
    THEN LET r == DecodeEntries(DataEntries(fields.data), 1, {})
         IN  IF r.err THEN [s EXCEPT !.status = "caught", !.errAt = "decode"]
             ELSE IF Cardinality(r.data) >= 1 THEN on_data(s, r.data)
             ELSE s
    ELSE IF fields.cmd = MODBUS_WRITE_RESP /\ s.op # NoOp
    THEN [s EXCEPT !.op = NoOp, !.opTicket = 0, !.lastSent = <<>>]
    ELSE s

\* Lines 274-305: what the frame carries
Content(s, fields) ==
    IF fields.cmd = MODBUS_READ_RESP
    THEN LET r == decode_raw_data(LittleEndian(SubSeq(fields.data, 1, 2)),
                                  SubSeq(fields.data, 3, Len(fields.data)))
         IN  IF r.err = "none" THEN on_res(s, r.name, r.value)
             ELSE [s EXCEPT !.status = "caught", !.errAt = "decode"]
    ELSE IF fields.cmd = MODBUS_DATA_MSG
    THEN LET r == DecodeEntries(DataEntries(fields.data), 1, {})
         IN  IF r.err THEN [s EXCEPT !.status = "caught", !.errAt = "decode"]
             ELSE IF Cardinality(r.data) >= 1 THEN on_data(s, r.data)
             ELSE s
    ELSE s

\* Body answering the frame before it admits a request
Body_RespondFirst(s) ==
    IF Len(s.payload) = 0 THEN s
    ELSE LET fields == ParsedPayload[s.payload]
         IN  IF fields.err THEN [s EXCEPT !.status = "caught", !.errAt = "parse"]
             ELSE IF fields.address # MODBUS40 THEN s
             ELSE LET s1 == Admit(PollResponse(s, fields.cmd))
                  IN  IF s1.status # "ok" THEN s1
                      ELSE Content(s1, fields)

\* Body without the test of the destination address
Body_AnyAddress(s) ==
    IF Len(s.payload) = 0 THEN s
    ELSE LET fields == ParsedPayload[s.payload]
         IN  IF fields.err THEN [s EXCEPT !.status = "caught", !.errAt = "parse"]
             ELSE LET s1 == Admit(s)
                  IN  IF s1.status # "ok" THEN s1
                      ELSE Content(PollResponse(s1, fields.cmd), fields)

\* Lines 208-308: the frame body, under try / except Exception
Body(s) ==
    IF Len(s.payload) = 0 THEN s
    ELSE LET fields == ParsedPayload[s.payload]
         IN  IF fields.err THEN [s EXCEPT !.status = "caught", !.errAt = "parse"]
             ELSE IF fields.address # MODBUS40 THEN s
             ELSE LET s1 == Admit(s)
                  IN  IF s1.status # "ok" THEN s1
                      ELSE Content(PollResponse(s1, fields.cmd), fields)

\* The state handle_frame starts from
Entry(p) ==
    [op |-> op, opTicket |-> opTicket, q |-> req_q, unfinished |-> unfinished,
     nput |-> nput, payload |-> p, out |-> <<>>, status |-> "ok",
     res |-> <<>>, data |-> <<>>, popped |-> popped, ndone |-> ndone,
     emitted |-> emitted, lastSent |-> lastSent, errAt |-> ""]

\* NibeSerial.handle_frame(payload, respond)
handle_frame(p) ==
    LET s1 == Preamble(Entry(p))
    IN  IF s1.status = "raised" THEN s1 ELSE Body(s1)

---------------------------------------------------------------------------
(* Actions *)

\* Line 195 and lines 54-55: no operation; the queue of the doctest is empty,
\* the queue of main holds the seed request
Init ==
    /\ \E seeded \in BOOLEAN :
         /\ req_q = IF seeded THEN <<[req |-> SeedRequest, ticket |-> 1]>> ELSE <<>>
         /\ unfinished = IF seeded THEN 1 ELSE 0
         /\ nput = IF seeded THEN 1 ELSE 0
    /\ op = NoOp
    /\ opTicket = 0
    /\ alive = TRUE
    /\ frame = <<>>
    /\ out = <<>>
    /\ status = "none"
    /\ res_out = <<>>
    /\ data_out = <<>>
    /\ popped = <<>>
    /\ ndone = 0
    /\ emitted = <<>>
    /\ lastSent = <<>>
    /\ errAt = ""
    /\ step = "init"
    /\ acked = <<>>
    /\ opReq = NoOp
    /\ resend = "none"
    /\ awaiting = 0
    /\ mid = <<>>

\* main.on_message: the intake thread puts a request
OnMessage(req) ==
    /\ alive
    /\ nput < MaxPuts
    /\ req_q' = Append(req_q, [req |-> req, ticket |-> nput + 1])
    /\ unfinished' = unfinished + 1
    /\ nput' = nput + 1
    /\ step' = "put"
    /\ mid' = IF mid # <<>> /\ mid[1].pc = "checked"
              THEN <<[mid[1] EXCEPT !.raced = TRUE]>>
              ELSE mid
    /\ UNCHANGED <<op, opTicket, alive, frame, out, status, res_out, data_out,
                   popped, ndone, emitted, lastSent, errAt, acked, opReq,
                   resend, awaiting>>

\* The frame p starts with the control byte c
StartsWith(p, c) == p # <<>> /\ p[1] = c

\* An ACK for the pending operation arrives with p
AckCompletes(p) == StartsWith(p, ACK) /\ op # NoOp /\ op.pending

\* The queued request holding ticket t
QueuedRequest(t) == (CHOOSE e \in {req_q[i] : i \in 1..Len(req_q)} : e.ticket = t).req

\* One turn of the loop of main: nibe.handle_frame(udp.recv(), udp.send)
HandleFrame(p) ==
    /\ alive
    /\ mid = <<>>
    /\ mid' = mid
    /\ \E s \in {handle_frame(p)} :
           /\ s.nput <= MaxPuts
           /\ op' = s.op
           /\ opTicket' = s.opTicket
           /\ req_q' = s.q
           /\ unfinished' = s.unfinished
           /\ nput' = s.nput
           /\ alive' = (s.status # "raised")
           /\ frame' = p
           /\ out' = s.out
           /\ status' = s.status
           /\ res_out' = s.res
           /\ data_out' = s.data
           /\ popped' = s.popped
           /\ ndone' = s.ndone
           /\ emitted' = s.emitted
           /\ lastSent' = s.lastSent
           /\ errAt' = s.errAt
           /\ step' = "frame"
           /\ acked' = IF AckCompletes(p) THEN Append(acked, opTicket) ELSE acked
           /\ opReq' = IF s.opTicket = opTicket THEN opReq
                       ELSE IF s.opTicket = 0 THEN NoOp
                       ELSE QueuedRequest(s.opTicket)
           /\ resend' = IF /\ s.out # <<>> /\ s.out[1] # PlainAck
                           /\ op # NoOp /\ lastSent # <<>>
                           /\ s.opTicket = opTicket
                        THEN IF op.pending /\ ~StartsWith(p, NAK)
                             THEN IF step = "frame" /\ frame = p
                                  THEN "unacked_repeat" ELSE "unacked"
                             ELSE "after_nak"
                        ELSE "none"
           /\ awaiting' = IF s.out # <<>> /\ s.out[1] # PlainAck
                          THEN s.opTicket
                          ELSE IF StartsWith(p, ACK) \/ StartsWith(p, NAK)
                          THEN 0
                          ELSE awaiting

----------------------------------------------------------------------------
(* handle_frame beside the intake thread.  The queue is a queue.Queue: each
   of its methods runs under the queue's lock, and on_message may put
   between any two of them.  A call that reaches line 213 is therefore taken
   in three steps: up to the test of line 213, from get_nowait to the
   response, and the handling of the content (whose callbacks put). *)

\* The locals of a call that goes on, with the queue as it is now
Resume(s) == [s EXCEPT !.q = req_q, !.unfinished = unfinished, !.nput = nput]

\* handle_frame returns to the loop of main with the locals s; req is the
\* request the call popped, NoOp if it popped none
Return(p, s, req) ==
    /\ s.nput <= MaxPuts
    /\ mid' = <<>>
    /\ op' = s.op
    /\ opTicket' = s.opTicket
    /\ req_q' = s.q
    /\ unfinished' = s.unfinished
    /\ nput' = s.nput
    /\ alive' = (s.status # "raised")
    /\ frame' = p
    /\ out' = s.out
    /\ status' = s.status
    /\ res_out' = s.res
    /\ data_out' = s.data
    /\ popped' = s.popped
    /\ ndone' = s.ndone
    /\ emitted' = s.emitted
    /\ lastSent' = s.lastSent
    /\ errAt' = s.errAt
    /\ step' = "frame"
    /\ acked' = IF AckCompletes(p) THEN Append(acked, opTicket) ELSE acked
    /\ opReq' = IF s.opTicket = opTicket THEN opReq
                ELSE IF s.opTicket = 0 THEN NoOp
                ELSE req
    /\ resend' = IF /\ s.out # <<>> /\ s.out[1] # PlainAck
                    /\ op # NoOp /\ lastSent # <<>>
                    /\ s.opTicket = opTicket
                 THEN IF op.pending /\ ~StartsWith(p, NAK)
                      THEN IF step = "frame" /\ frame = p
                           THEN "unacked_repeat" ELSE "unacked"
                      ELSE "after_nak"
                 ELSE "none"
    /\ awaiting' = IF s.out # <<>> /\ s.out[1] # PlainAck
                   THEN s.opTicket
                   ELSE IF StartsWith(p, ACK) \/ StartsWith(p, NAK)
                   THEN 0
                   ELSE awaiting

\* The call ends before line 213: uncaught IndexError, nothing after the
\* control byte, parse error, or a frame for another node
EndsEarly(s) ==
    \/ s.status = "raised"
    \/ Len(s.payload) = 0
    \/ ParsedPayload[s.payload].err
    \/ ParsedPayload[s.payload].address # MODBUS40

\* Lines 197-213: the control byte with its task_done, the parse and the
\* tests of line 213
BeginFrame(p) ==
    /\ alive
    /\ mid = <<>>
    /\ \E s1 \in {Preamble(Entry(p))} :
          IF EndsEarly(s1)
          THEN \E s \in {handle_frame(p)} : Return(p, s, NoOp)
          ELSE /\ mid' = <<[pc |-> "checked", p |-> p, s |-> s1,
                            get |-> AdmitCheck(s1), raced |-> FALSE,
                            req |-> NoOp]>>
               /\ unfinished' = s1.unfinished
               /\ UNCHANGED <<req_q, op, opTicket, alive, nput, frame, out,
                              status, res_out, data_out, popped, ndone,
                              emitted, lastSent, errAt, step, acked, opReq,
                              resend, awaiting>>

\* Lines 214-272: get_nowait when line 213 said so, the admission and the
\* response
GetAndRespond ==
    /\ mid # <<>>
    /\ mid[1].pc = "checked"
    /\ LET m == mid[1]
       IN  \E s2 \in {IF m.get THEN AdmitGet(Resume(m.s)) ELSE Resume(m.s)} :
             IF s2.status # "ok"
             THEN Return(m.p, s2, NoOp)
             ELSE \E s3 \in {PollResponse(s2, ParsedPayload[s2.payload].cmd)} :
                    /\ mid' = <<[m EXCEPT !.pc = "content", !.s = s3,
                                          !.req = IF m.get THEN Head(req_q).req
                                                  ELSE NoOp]>>
                    /\ req_q' = s3.q
                    /\ popped' = s3.popped
                    /\ UNCHANGED <<unfinished, op, opTicket, alive, nput,
                                   frame, out, status, res_out, data_out,
                                   ndone, emitted, lastSent, errAt, step,
                                   acked, opReq, resend, awaiting>>

\* Lines 274-308: the content of the frame, then the call returns
HandleContent ==
    /\ mid # <<>>
    /\ mid[1].pc = "content"
    /\ LET m == mid[1]
       IN  \E s4 \in {Content(Resume(m.s), ParsedPayload[m.s.payload])} :
             Return(m.p, s4, m.req)

\* The datagrams of the stepwise calls: the control bytes, the polls alone
\* and after an ACK, and the two frames whose callbacks put a request
PollPathFrames ==
    { <<ACK>>, <<NAK>>, ReadPoll, WritePoll, <<ACK>> \o ReadPoll,
      <<ACK>> \o WritePoll, ReadRespAlarm, DataAlarm }

NextConc ==
    \/ \E req \in Requests : OnMessage(req)
    \/ \E p \in PollPathFrames : BeginFrame(p)
    \/ GetAndRespond
    \/ HandleContent

SpecConc == Init /\ [][NextConc]_vars

----------------------------------------------------------------------------
Next ==
    \/ \E req \in Requests : OnMessage(req)
    \/ \E p \in Frames : HandleFrame(p)

Spec == Init /\ [][Next]_vars

\* The controller acknowledges the request frame it was sent
AckWhilePending == op # NoOp /\ op.pending /\ HandleFrame(<<ACK>>)

\* The loop of main under a controller that keeps polling for reads and for
\* writes and that acknowledges, sooner or later, a request frame it was sent
Cooperative ==
    /\ WF_vars(HandleFrame(ReadPoll))
    /\ WF_vars(HandleFrame(WritePoll))
    /\ SF_vars(AckWhilePending)

\* The datagrams of the progress runs: the empty datagram, the control
\* bytes and the two polls
ProgressFrames == { <<>>, <<ACK>>, <<NAK>>, ReadPoll, WritePoll }

NextLive ==
    \/ \E req \in Requests : OnMessage(req)
    \/ \E p \in ProgressFrames : HandleFrame(p)

SpecLive == Init /\ [][NextLive]_vars /\ Cooperative

---------------------------------------------------------------------------
(* Vocabulary of the properties *)

\* m is a read or write request frame, not the plain ACK
IsRequestFrame(m) == m # PlainAck

\* The request frame the request req asks for
FrameFor(req) ==
    LET address == get_coil_by_name(req.name).address
    IN  IF "value" \in DOMAIN req
        THEN WriteRequestBuild(address, ToBytes(req.value[1], 4))
        ELSE ReadRequestBuild(address)

\* The operation reads (no target value) or writes
IsRead(o) == o.coil.value = None
IsWrite(o) == o.coil.value # None

\* The poll that matches the direction of the operation o
MatchingPoll(o) == IF IsRead(o) THEN ReadPoll ELSE WritePoll
OppositePoll(o) == IF IsRead(o) THEN WritePoll ELSE ReadPoll

\* Frames that are a poll for this node, with or without a control byte
PollFrames ==
    {ReadPoll, WritePoll}
        \cup {<<c>> \o b : c \in {ACK, NAK}, b \in {ReadPoll, WritePoll}}

SeqToSet(q) == {q[i] : i \in 1..Len(q)}

---------------------------------------------------------------------------
(* C1: at most one operation is in flight.  A step pops at most one request;
   while an operation is active and no ACK completes it, no request is
   popped and the operation stays the one of the same request; a request
   frame that is sent is the frame of the active operation's request, and
   that request is the one popped last. *)
C1_Step ==
    /\ Len(popped') <= Len(popped) + 1
    /\ (op # NoOp /\ ~AckCompletes(frame'))
          => /\ popped' = popped
             /\ opTicket' = opTicket
             /\ op' # NoOp
             /\ op'.coil = op.coil
    /\ emitted' # emitted
          => /\ emitted' = Append(emitted, opTicket')
             /\ opTicket' # 0
             /\ opTicket' = popped'[Len(popped')]
    /\ (out' # <<>> /\ IsRequestFrame(out'[1]))
          => /\ op' # NoOp
             /\ out' = <<FrameFor(opReq')>>
             /\ emitted'[Len(emitted')] = opTicket'

\* C1: at most one operation is in flight: every step satisfies C1_Step
C1_OneInFlight == [][C1_Step]_vars

\* A read poll arrived for a pending write while another request waited: it
\* was answered with the plain ACK and the waiting request stayed queued.
C1_Witness ==
    /\ step = "frame" /\ frame = ReadPoll /\ status = "ok"
    /\ op # NoOp /\ op.pending /\ IsWrite(op)
    /\ req_q # <<>>
    /\ out = <<PlainAck>>

(* C2: every poll addressed to this node is answered exactly once, with the
   plain ACK or with the request frame of the active operation. *)
C2_EveryPollAnswered ==
    (step # "init" /\ frame \in PollFrames)
        => /\ Len(out) = 1
           /\ \/ out[1] = PlainAck
              \/ op # NoOp /\ out[1] = FrameFor(opReq)

(* C3: an ACK completes exactly once.  task_done has returned once for each
   ACK that arrived while an operation was pending, never more often than
   requests were popped, it never fails, and the operation such an ACK
   arrived for is no longer the active one. *)
C3_AckCompletesOnce ==
    /\ ndone = Len(acked)
    /\ ndone <= Len(popped)
    /\ errAt # "task_done"
    /\ \A i \in 1..Len(acked) :
          /\ acked[i] \in SeqToSet(popped)
          /\ acked[i] # opTicket
          /\ \A j \in 1..Len(acked) : acked[i] = acked[j] => i = j

\* An ACK arrived for the second pending operation: both were completed.
C3_Witness ==
    /\ step = "frame" /\ StartsWith(frame, ACK) /\ status = "ok"
    /\ Len(acked) = 2 /\ ndone = 2
    /\ acked[2] = popped[Len(popped)]
    /\ opTicket # acked[2]

\* The frame f without its control byte, if it has one
PollBody(f) == IF f[1] \in {ACK, NAK} THEN Tail(f) ELSE f

\* The operation as the control byte of the frame p leaves it
AfterControlByte(o, p) ==
    IF o # NoOp /\ o.pending /\ StartsWith(p, ACK) THEN NoOp
    ELSE IF o # NoOp /\ o.pending /\ StartsWith(p, NAK)
    THEN [o EXCEPT !.pending = FALSE]
    ELSE o

(* C4: NAK retries.  A NAK for the pending operation keeps the operation
   (same register, same value, no task_done) with pending = false; the next
   poll of the matching direction, in a later frame or behind the NAK in the
   same frame, sends the frame sent before the NAK again and sets pending. *)
C4_Step ==
    /\ (step' = "frame" /\ StartsWith(frame', NAK) /\ op # NoOp /\ op.pending)
          => /\ op' # NoOp
             /\ op'.coil = op.coil
             /\ opTicket' = opTicket
             /\ ndone' = ndone
             /\ unfinished' = unfinished
             /\ lastSent' = lastSent
             /\ frame' = <<NAK>> => (op' = [op EXCEPT !.pending = FALSE] /\ out' = <<>>)
             /\ frame' = <<NAK>> \o MatchingPoll(op)
                   => (op' = op /\ out' = <<lastSent>>)
    /\ (step' = "frame" /\ op # NoOp /\ ~op.pending /\ lastSent # <<>>
            /\ frame' = MatchingPoll(op))
          => /\ out' = <<lastSent>>
             /\ op' = [op EXCEPT !.pending = TRUE]
             /\ lastSent' = lastSent

\* C4: a NAK keeps the operation and the next matching poll resends its
\* frame unchanged: every step satisfies C4_Step
C4_NakRetries == [][C4_Step]_vars

\* After a NAK the matching poll brought the same frame out again.
C4_Witness ==
    /\ resend = "after_nak" /\ ~StartsWith(frame, NAK)
    /\ op # NoOp /\ op.pending
    /\ out = <<lastSent>> /\ out = <<FrameFor(opReq)>>

(* C5: direction gating.  A poll of the direction opposite to the active
   operation's is answered with the plain ACK only, and the poll leaves the
   operation and its pending flag as they were (as the control byte left
   them, when the frame has one). *)
C5_State ==
    (step = "frame" /\ status = "ok" /\ frame \in PollFrames /\ op # NoOp
        /\ PollBody(frame) = OppositePoll(op))
        => out = <<PlainAck>>

C5_Step ==
    /\ (step' = "frame" /\ op # NoOp /\ frame' = OppositePoll(op))
          => (out' = <<PlainAck>> /\ op' = op /\ status' = "ok")
    /\ (step' = "frame" /\ op # NoOp /\ frame' = <<NAK>> \o OppositePoll(op))
          => (out' = <<PlainAck>> /\ op' = AfterControlByte(op, frame'))
    /\ (step' = "frame" /\ op = NoOp /\ op' # NoOp /\ frame' \in PollFrames
            /\ PollBody(frame') = OppositePoll(op'))
          => ~op'.pending

\* C5: a poll of the opposite direction gets the plain ACK and changes
\* nothing: C5_State holds in every state, C5_Step of every step
C5_DirectionGating == []C5_State /\ [][C5_Step]_vars

\* A write poll arrived while a read was pending and got the plain ACK.
C5_Witness ==
    /\ step = "frame" /\ frame = WritePoll /\ status = "ok"
    /\ op # NoOp /\ IsRead(op) /\ op.pending
    /\ out = <<PlainAck>>

(* C6: idempotent resend.  A matching poll that arrives while the operation
   is pending is answered with the frame sent before, byte for byte, and
   leaves the operation, its pending flag and the queue as they were; when
   the frame before was the same poll the two answers are equal. *)
C6_Step ==
    (step' = "frame" /\ op # NoOp /\ op.pending /\ frame' = MatchingPoll(op))
        => /\ out' = <<lastSent>>
           /\ op' = op
           /\ req_q' = req_q
           /\ unfinished' = unfinished
           /\ popped' = popped
           /\ (step = "frame" /\ frame = frame' /\ status = "ok") => out' = out

\* C6: a matching poll for a pending operation resends the same frame and
\* changes nothing: every step satisfies C6_Step
C6_IdempotentResend == [][C6_Step]_vars

\* The same matching poll arrived twice in a row for a pending operation.
C6_Witness ==
    /\ resend = "unacked_repeat" /\ frame \in {ReadPoll, WritePoll}
    /\ op # NoOp /\ op.pending
    /\ out = <<lastSent>>

(* C7, as the specification states it: whenever an error is raised while
   the frame body is processed, respond is not called for that frame. *)
C7_NoResponseOnError == status = "caught" => out = <<>>

(* C7, amended: an error raised while the body is parsed or a request is
   admitted leaves respond uncalled; an error raised while read-response or
   data-message content is decoded comes after the plain ACK was sent, so
   respond was called exactly once, with 0x06. *)
C7_ResponseOnError ==
    status = "caught"
        => \/ errAt \in {"parse", "admit"} /\ out = <<>>
           \/ errAt = "decode" /\ out = <<PlainAck>>

\* A read response for an unknown register was acknowledged, then dropped.
C7_Witness ==
    /\ step = "frame" /\ status = "caught" /\ errAt = "decode"
    /\ PollBody(frame) = ReadRespUnknown
    /\ out = <<PlainAck>>

(* C8: no state change on error.  When the body of a frame raises, the
   operation, its pending flag and the queue are what the control byte left:
   a request naming an unknown register stays queued. *)
C8_Step ==
    (step' = "frame" /\ status' = "caught")
        => /\ req_q' = req_q
           /\ op' = AfterControlByte(op, frame')

\* C8: an error in the frame body changes neither operation nor queue:
\* every step satisfies C8_Step
C8_NoStateChangeOnError == [][C8_Step]_vars

(* C9: no frame is fatal: handle_frame returns normally for every byte
   string, so the loop of main keeps running. *)
C9_NoFrameFatal == alive /\ status # "raised"

(* C10: FIFO serialization.  Requests leave the queue in the order they were
   put; request frames appear on the bus in that order, and the frame of a
   later request appears only after every request sent before it was
   completed by an ACK. *)
C10_Fifo ==
    /\ \A i \in 1..Len(popped) : popped[i] = i
    /\ \A i \in 1..Len(req_q) : req_q[i].ticket = Len(popped) + i
    /\ \A i \in 1..Len(emitted) : \A j \in 1..Len(emitted) :
          i < j => /\ emitted[i] < emitted[j]
                   /\ emitted[i] \in SeqToSet(acked)
    /\ \A i \in 1..Len(emitted) :
          emitted[i] \in SeqToSet(popped)
    /\ (emitted # <<>> /\ emitted[Len(emitted)] \notin SeqToSet(acked))
          => opTicket = emitted[Len(emitted)]
    /\ (out # <<>> /\ IsRequestFrame(out[1])) => out = <<FrameFor(opReq)>>

\* Two writes were put, hot water first; after write poll and ACK for the
\* first, the next write poll brought the frame of the second.
C10_Witness ==
    /\ step = "frame" /\ frame = WritePoll
    /\ emitted = <<1, 2>> /\ acked = <<1>>
    /\ opReq = AlarmReset
    /\ out = << <<192, 107, 6, 115, 176, 1, 0, 0, 0, 111>> >>

(* C11: stray control bytes are absorbed.  When a frame starting with ACK or
   NAK arrives while no operation is active or the active one is not
   pending, the control byte changes neither the operation, its pending
   flag nor the queue accounting (no task_done); a lone control byte does
   nothing at all, and a control byte followed by a body has the effect the
   body alone would have had. *)
C11_Step ==
    (/\ step' = "frame"
     /\ (StartsWith(frame', ACK) \/ StartsWith(frame', NAK))
     /\ (op = NoOp \/ ~op.pending))
        => /\ ndone' = ndone
           /\ acked' = acked
           /\ Len(frame') = 1
                 => /\ op' = op /\ req_q' = req_q /\ unfinished' = unfinished
                    /\ out' = <<>> /\ status' = "ok"
           /\ Len(frame') > 1
                 => LET alone == handle_frame(Tail(frame'))
                    IN  /\ op' = alone.op
                        /\ req_q' = alone.q
                        /\ unfinished' = alone.unfinished
                        /\ out' = alone.out
                        /\ status' = alone.status
                        /\ errAt' = alone.errAt

\* C11: a stray ACK or NAK is absorbed and the rest of the frame is
\* processed: every step satisfies C11_Step
C11_StrayControlByte == [][C11_Step]_vars

\* An ACK came with a write poll while a read waited unsent and nothing had
\* ever been acknowledged: the read stayed as it was, the poll got its ACK.
C11_Witness ==
    /\ step = "frame" /\ frame = <<ACK>> \o WritePoll /\ status = "ok"
    /\ op # NoOp /\ IsRead(op) /\ ~op.pending
    /\ acked = <<>> /\ ndone = 0
    /\ out = <<PlainAck>>

\* The body of the frame f is b, with or without a control byte before it
HasBody(f, b) == f # <<>> /\ PollBody(f) = b

(* C12: wide-value stitching.  In a data message whose entry at 42028 (four
   bytes wide) is too short, the next entry is taken as its continuation and
   both are used up: when it is at 42029 the batch holds one value for
   aa23-be5-energy-1-42028, decoded from the two payloads in order
   (01 02 03 00 = 197121), beside the values of the other entries; when it
   is at another address, or there is no next entry, on_data is not called
   for the frame. *)
C12_WideValueStitching ==
    /\ (step = "frame" /\ HasBody(frame, DataWide) /\ errAt # "admit")
          => /\ status = "ok"
             /\ data_out = << { <<"aa23-be5-energy-1-42028", 197121>>,
                                <<"bt1-outdoor-temperature-40004", 128>> } >>
    /\ (step = "frame" /\ (HasBody(frame, DataNotAdjacent)
                              \/ HasBody(frame, DataWideAtEnd)))
          => /\ status = "caught"
             /\ data_out = <<>>

\* A data message carried 42028 over two entries and one more value.
C12_Witness ==
    /\ step = "frame" /\ frame = DataWide /\ status = "ok"
    /\ Len(data_out) = 1
    /\ <<"aa23-be5-energy-1-42028", 197121>> \in data_out[1]
    /\ Cardinality(data_out[1]) = 2

(* C13: sentinel skip and non-empty batch.  For a data message addressed to
   this node, entries at 0xFFFF add nothing to the batch, on_data is called
   at most once per frame and only with a non-empty batch (a message of
   sentinels only calls it zero times), and the frame is answered with the
   plain ACK 0x06 in both cases.  The code does not keep the last part: a
   frame whose admission raises is not answered at all. *)
C13_SentinelSkip ==
    /\ Len(data_out) <= 1
    /\ \A i \in 1..Len(data_out) : data_out[i] # {}
    /\ (step = "frame" /\ HasBody(frame, DataSentinels))
          => data_out = <<>> /\ out = <<PlainAck>>
    /\ (step = "frame" /\ HasBody(frame, DataPlain))
          => /\ data_out = << { <<"bt1-outdoor-temperature-40004", 128>> } >>
             /\ out = <<PlainAck>>

(* C14: the pending flag tracks the bus.  In every reachable state an active
   operation is pending if and only if a request frame was sent for it and
   no frame starting with ACK or NAK was received since the last such
   sending. *)
C14_PendingTracksBus ==
    op # NoOp => (op.pending <=> awaiting = opTicket)

\* A NAK took the pending flag off an operation whose request frame was sent.
C14_Witness ==
    /\ step = "frame" /\ StartsWith(frame, NAK)
    /\ op # NoOp /\ ~op.pending
    /\ lastSent # <<>> /\ awaiting = 0
    /\ emitted # <<>> /\ emitted[Len(emitted)] = opTicket

(* C15: an operation ends only by ACK.  Once a request is admitted as the
   active operation it stays the active operation, with the same register,
   direction and target value, across every step (polls of either
   direction, NAKs, other commands, malformed and foreign frames, puts)
   other than a frame that starts with 0x06 and arrives while the operation
   is pending. *)
C15_Step ==
    (op # NoOp /\ ~(step' = "frame" /\ StartsWith(frame', ACK) /\ op.pending))
        => /\ op' # NoOp
           /\ op'.coil = op.coil
           /\ opTicket' = opTicket
           /\ opReq' = opReq
C15_EndsOnlyByAck == [][C15_Step]_vars

\* A pending write met the controller's write response and is still active.
C15_Witness ==
    /\ step = "frame" /\ frame = WriteResp /\ status = "ok"
    /\ op # NoOp /\ IsWrite(op) /\ op.pending
    /\ opReq = AlarmReset /\ acked = <<>>

(* C16: no request is lost between queue and operation.  After every call of
   handle_frame each request ever popped from the queue is the active
   operation or was completed by an ACK (task_done called for it): popped
   minus completed is 1 when an operation is active and 0 otherwise.  The
   code loses a request that is popped and then fails validation. *)
C16_NoRequestLost ==
    /\ Len(popped) - ndone = IF op # NoOp THEN 1 ELSE 0
    /\ \A i \in 1..Len(popped) :
          popped[i] = opTicket \/ popped[i] \in SeqToSet(acked)

\* The bodies that parse and are addressed to another node
ForeignBodies ==
    {b \in Bodies : ~ParsedPayload[b].err /\ ParsedPayload[b].address # MODBUS40}

(* C17: foreign-address frames are ignored.  When the parsed body of the
   frame is addressed to another node than MODBUS40, the call sends no
   response, pops nothing from the queue and puts nothing, calls neither
   on_res nor on_data, raises nothing, and leaves the operation and its
   pending flag as the control-byte preamble left them. *)
C17_Step ==
    (step' = "frame" /\ frame' # <<>> /\ PollBody(frame') \in ForeignBodies)
        => /\ out' = <<>>
           /\ popped' = popped
           /\ req_q' = req_q
           /\ nput' = nput
           /\ res_out' = <<>>
           /\ data_out' = <<>>
           /\ status' = "ok"
           /\ op' = AfterControlByte(op, frame')
C17_ForeignIgnored == [][C17_Step]_vars

\* A poll for another node arrived while a request waited with no operation.
C17_Witness ==
    /\ step = "frame" /\ frame = ForeignPoll /\ status = "ok"
    /\ op = NoOp /\ req_q # <<>> /\ popped = <<>>
    /\ out = <<>>

\* The request req names a register of the directory and, when it writes,
\* a value the register accepts
ValidRequest(req) ==
    /\ req.name \in CoilNames
    /\ "value" \in DOMAIN req
          => ValueAccepted(get_coil_by_name(req.name), req.value)

(* C18: control byte and poll in one frame.  When one frame is an ACK
   followed by a poll for this node, and it arrives while operation A is
   pending and the queue holds request B, the same call completes A (one
   task_done), admits B as the new operation and, if the poll's direction
   is B's, sends B's request frame and marks B pending; when the frame is a
   NAK followed by the poll of A's direction, A's request frame is sent
   again and A is pending.  The code does not admit a B that fails
   validation: B is popped and dropped and the poll is left unanswered. *)
C18_Step ==
    (step' = "frame" /\ op # NoOp /\ op.pending /\ req_q # <<>>)
        => /\ frame' \in {<<ACK>> \o ReadPoll, <<ACK>> \o WritePoll}
                => /\ ndone' = ndone + 1
                   /\ acked' = Append(acked, opTicket)
                   /\ op' # NoOp
                   /\ opTicket' = Head(req_q).ticket
                   /\ opReq' = Head(req_q).req
                   /\ req_q' = Tail(req_q)
                   /\ IF PollBody(frame') = MatchingPoll(op')
                      THEN out' = <<FrameFor(Head(req_q).req)>> /\ op'.pending
                      ELSE out' = <<PlainAck>> /\ ~op'.pending
           /\ frame' = <<NAK>> \o MatchingPoll(op)
                => /\ out' = <<lastSent>> /\ out' = <<FrameFor(opReq)>>
                   /\ op'.pending /\ op'.coil = op.coil
                   /\ opTicket' = opTicket
                   /\ ndone' = ndone
C18_ControlByteAndPoll == [][C18_Step]_vars

\* The same statement for a request B that passes validation
C18_ValidStep == (req_q # <<>> /\ ValidRequest(Head(req_q).req)) => C18_Step
C18_ValidOnly == [][C18_ValidStep]_vars

\* The tickets of the requests in the queue
QueuedTickets == {req_q[i].ticket : i \in 1..Len(req_q)}

(* C19: concurrent intake is safe for the poll path.  With on_message
   putting requests at any moment and handle_frame the only consumer, the
   get_nowait that follows the test "queue not empty" never finds the queue
   empty, and every request put is popped at most once and none is dropped
   by the queue: each ticket handed out is either still queued, once, or
   was popped, once. *)
C19_ConcurrentIntake ==
    /\ (mid # <<>> /\ mid[1].pc = "checked" /\ mid[1].get) => req_q # <<>>
    /\ errAt # "empty"
    /\ \A i \in 1..Len(popped) : \A j \in 1..Len(popped) :
          i # j => popped[i] # popped[j]
    /\ \A i \in 1..Len(req_q) : \A j \in 1..Len(req_q) :
          i # j => req_q[i].ticket # req_q[j].ticket
    /\ QueuedTickets \cap SeqToSet(popped) = {}
    /\ QueuedTickets \cup SeqToSet(popped) = 1..nput

\* A request was put between the test of line 213 and get_nowait, and the
\* call went on to pop the oldest request.
C19_Witness ==
    /\ mid # <<>> /\ mid[1].pc = "content"
    /\ mid[1].get /\ mid[1].raced
    /\ popped # <<>> /\ req_q # <<>>
    /\ mid[1].req = SeedRequest

\* The request with ticket t is in the queue and names a known register
KnownQueued(t) ==
    \E i \in 1..Len(req_q) :
        req_q[i].ticket = t /\ req_q[i].req.name \in CoilNames

\* The request with ticket t is in the queue and passes validation
ValidQueued(t) ==
    \E i \in 1..Len(req_q) :
        req_q[i].ticket = t /\ ValidRequest(req_q[i].req)

(* C20: progress under a cooperative controller.  If the controller keeps
   sending read polls and write polls for this node and acknowledges every
   request frame sooner or later, every request put with a name the
   directory knows has its request frame sent and its operation completed
   by an ACK in the end; none stays queued or active for ever.  The code
   does not give this: an empty datagram ends the process, and a request
   whose value the register rejects is dropped at admission. *)
C20_Progress ==
    \A t \in 1..MaxPuts :
        KnownQueued(t) ~> (t \in SeqToSet(emitted) /\ t \in SeqToSet(acked))

\* The same progress for the requests that pass validation, for as long as
\* no empty datagram has ended the process
C20_ValidWhileAlive ==
    \A t \in 1..MaxPuts :
        ValidQueued(t) ~>
            (~alive \/ (t \in SeqToSet(emitted) /\ t \in SeqToSet(acked)))

\* The progress of C20 for as long as no empty datagram has ended the
\* process: still not given, a request with a known name and a rejected
\* value is popped and dropped
C20_KnownWhileAlive ==
    \A t \in 1..MaxPuts :
        KnownQueued(t) ~>
            (~alive \/ (t \in SeqToSet(emitted) /\ t \in SeqToSet(acked)))

====
